---- MODULE Spec2Model ----
(***************************************************************************)
(* Model of scripts.js (portalmas): the client-side live filter.           *)
(*                                                                         *)
(* A string is a sequence of one-character strings.  The page (which       *)
(* elements the document holds) is fixed when the document is parsed; the  *)
(* DOMContentLoaded handler reads it once and registers the listeners.     *)
(* Every listener runs to completion, so each is one action.               *)
(***************************************************************************)
EXTENDS Integers, Sequences, FiniteSets

\* ------------------------------------------------------------------------
\* Bounds of the model
\* ------------------------------------------------------------------------

\* Longest value the search field is given.
MaxLen == 2

\* Most timers the event loop holds at once.
MaxTimers == 2

\* Input events of one burst the history counts (more count as this many).
MaxBurst == 2

\* Most tag links of a page of the chip specification.
MaxTags == 13

\* ------------------------------------------------------------------------
\* Program constants
\* ------------------------------------------------------------------------

\* setTimeout(doSearch, 150)
DebounceMs == 150

\* suggestions.slice(0, 10)
ChipLimit == 10

\* Granularity of the clock of the model: time advances in half delays.
TickMs == DebounceMs \div 2

\* Largest age the clock of the model tells apart ("long ago").
AgeCap == DebounceMs + TickMs

\* ------------------------------------------------------------------------
\* Strings
\* ------------------------------------------------------------------------

\* The characters a user types: an uppercase letter, white space, and a
\* character that is reserved in a URL.
Chars == {"B", " ", "&"}

\* String.prototype.toLowerCase on one character.
LowerChar(c) == IF c = "B" THEN "b" ELSE IF c = "A" THEN "a" ELSE c

ToLowerCase(s) == [i \in 1..Len(s) |-> LowerChar(s[i])]

IsSpace(c) == c = " "

RECURSIVE TrimStart(_)
TrimStart(s) ==
  IF s # <<>> /\ IsSpace(Head(s)) THEN TrimStart(Tail(s)) ELSE s

RECURSIVE TrimEnd(_)
TrimEnd(s) ==
  IF s # <<>> /\ IsSpace(s[Len(s)]) THEN TrimEnd(SubSeq(s, 1, Len(s) - 1)) ELSE s

\* String.prototype.trim
Trim(s) == TrimEnd(TrimStart(s))

\* String.prototype.replace(/\s+/g, ' '): every run of white space becomes
\* one space.
RECURSIVE CollapseSpaces(_)
CollapseSpaces(s) ==
  IF s = <<>> THEN <<>>
  ELSE IF IsSpace(Head(s))
       THEN <<" ">> \o CollapseSpaces(TrimStart(s))
       ELSE <<Head(s)>> \o CollapseSpaces(Tail(s))

\* String.prototype.indexOf(q): the first position (0-based) at which q
\* occurs in text, -1 when there is none.
IndexOf(text, q) ==
  LET hits == {i \in 0..(Len(text) - Len(q)) :
                 SubSeq(text, i + 1, i + Len(q)) = q}
  IN IF hits = {} THEN -1 ELSE CHOOSE i \in hits : \A j \in hits : i <= j

\* encodeURIComponent on one character: letters stay, the rest is escaped.
EncodeChar(c) ==
  IF c = " " THEN <<"%", "2", "0">>
  ELSE IF c = "+" THEN <<"%", "2", "B">>
  ELSE IF c = "&" THEN <<"%", "2", "6">>
  ELSE IF c = "%" THEN <<"%", "2", "5">>
  ELSE <<c>>

RECURSIVE EncodeURIComponent(_)
EncodeURIComponent(s) ==
  IF s = <<>> THEN <<>> ELSE EncodeChar(Head(s)) \o EncodeURIComponent(Tail(s))

\* The value URLSearchParams gives for an encoded parameter: an unescaped
\* "&" ends the parameter, "+" is a space, %XX is the escaped character, and
\* a "%" that starts no escape is kept as it is.
RECURSIVE DecodeParam(_)
DecodeParam(s) ==
  IF s = <<>> THEN <<>>
  ELSE IF Head(s) = "&" THEN <<>>
  ELSE IF Head(s) = "+" THEN <<" ">> \o DecodeParam(Tail(s))
  ELSE IF Len(s) >= 3 /\ SubSeq(s, 1, 3) = <<"%", "2", "0">>
       THEN <<" ">> \o DecodeParam(SubSeq(s, 4, Len(s)))
  ELSE IF Len(s) >= 3 /\ SubSeq(s, 1, 3) = <<"%", "2", "B">>
       THEN <<"+">> \o DecodeParam(SubSeq(s, 4, Len(s)))
  ELSE IF Len(s) >= 3 /\ SubSeq(s, 1, 3) = <<"%", "2", "6">>
       THEN <<"&">> \o DecodeParam(SubSeq(s, 4, Len(s)))
  ELSE IF Len(s) >= 3 /\ SubSeq(s, 1, 3) = <<"%", "2", "5">>
       THEN <<"%">> \o DecodeParam(SubSeq(s, 4, Len(s)))
  ELSE <<Head(s)>> \o DecodeParam(Tail(s))

\* ------------------------------------------------------------------------
\* The page: what the document holds when DOMContentLoaded fires
\* ------------------------------------------------------------------------

\* document.querySelector found no such element.
NoContainer == [present |-> FALSE, cards |-> <<>>]

\* window.location.search carries no q parameter.
NoParam == [present |-> FALSE, raw |-> <<>>]

\* textContent of the cards of the pages.
Card1 == <<"B">>
Card2 == <<" ", "&", " ", " ", "B">>

\* The cards of one container (.koleksi or .highlight-items).
CardLists == {<<>>, <<Card1>>, <<Card2, Card1>>}

\* A container of the document, or NoContainer.
Containers == {NoContainer} \cup {[present |-> TRUE, cards |-> c] : c \in CardLists}

\* textContent of the a.tag links of a page.
TagLists == {<<>>, << <<"&">>, <<" ">>, <<" ", "&">>, <<"B">> >>}

\* The encoded value of the q parameter of the page URL.
UrlParams ==
  {NoParam} \cup
  {[present |-> TRUE, raw |-> r] :
     r \in {<<>>, <<"%", "2", "6", "+">>, <<"%">>}}

\* The pages.  .search-btn is looked up on index pages only, tags on the
\* others only, and a page without a search field runs none of the script's
\* search code.
Pages ==
  {p \in [input : BOOLEAN,
          koleksi : Containers,
          highlight : Containers,
          btn : BOOLEAN,
          tags : TagLists,
          search : UrlParams] :
     LET indexLike == p.highlight.present /\ ~p.koleksi.present
     IN /\ (p.btn => indexLike)
        /\ (p.tags # <<>> => ~indexLike)
        /\ (~p.input => /\ p.tags = <<>>
                        /\ p.search = NoParam
                        /\ p.koleksi.cards \in {<<>>, <<Card1>>}
                        /\ p.highlight.cards \in {<<>>, <<Card1>>})}

\* containers.flatMap(c => c.querySelectorAll('.arsip-card, .card')): the
\* cards of the page, in document order.
AllCards(p) == p.koleksi.cards \o p.highlight.cards

\* dataset.search of a card the script has not written.
Unset == <<"unset">>

\* The .no-results element is not in the document.
Absent == "absent"

\* window.location.href was not assigned.
NoNav == [path |-> "", q |-> <<>>]

VARIABLES
  phase,       \* "parsed": DOMContentLoaded has not fired; "ready": it has
  page,        \* the document as parsed
  value,       \* searchInput.value
  display,     \* style.display of every card
  dataset,     \* dataset.search of every card
  noResults,   \* style.display of the .no-results element, or Absent
  chips,       \* textContent of the .suggestion buttons
  listeners,   \* the listeners the script registered
  timers,      \* the pending timers of the event loop
  timeoutId,   \* the variable timeoutId (0 is null)
  href,        \* the URL assigned to window.location.href, or NoNav
  lastEvent,   \* history: the last event handled
  ran,         \* history: the last event ran doSearch
  sinceInput,  \* history: ms since the last input event (at most AgeCap)
  burstInputs, \* history: input events of the current burst (at most MaxBurst)
  burstRuns,   \* history: debounce runs since the current burst began
  runsSinceEdit, \* history: filter runs since the field last changed (at most 2)
  before,      \* history: the styles just before the last filter run
  origin,      \* history: the trimmed query of the last redirect, or <<>>
  lastChip     \* history: the chip whose click was the last event, or 0

vars == <<phase, page, value, display, dataset, noResults, chips, listeners,
          timers, timeoutId, href, lastEvent, ran, sinceInput, burstInputs,
          burstRuns, runsSinceEdit, before, origin, lastChip>>

\* The history variables of the bursts of input events.
burstVars == <<sinceInput, burstInputs, burstRuns>>

\* The styles a filter run found: how many items were hidden, and the
\* style.display of the message.
Styles(disp, nr) ==
  [hidden |-> Cardinality({i \in DOMAIN disp : disp[i] = "none"}),
   message |-> nr]

\* History of a filter run.
RunHistory(disp, nr) ==
  /\ ran' = TRUE
  /\ runsSinceEdit' = IF runsSinceEdit < 2 THEN runsSinceEdit + 1 ELSE 2
  /\ before' = Styles(disp, nr)

\* History of an event that runs no filter.
NoRunHistory ==
  /\ ran' = FALSE
  /\ UNCHANGED <<runsSinceEdit, before>>

\* The documents of the set P when DOMContentLoaded is about to fire.
StartOn(P) ==
  /\ phase = "parsed"
  /\ page \in P
  /\ value = <<>>
  /\ display = [i \in 1..Len(AllCards(page)) |-> ""]
  /\ dataset = [i \in 1..Len(AllCards(page)) |-> Unset]
  /\ noResults \in {Absent, "none", ""}
  /\ chips = <<>>
  /\ listeners = {}
  /\ timers = {}
  /\ timeoutId = 0
  /\ href = NoNav
  /\ lastEvent = "none"
  /\ ran = FALSE
  /\ sinceInput = AgeCap
  /\ burstInputs = 0
  /\ burstRuns = 0
  /\ runsSinceEdit = 0
  /\ before = Styles(display, noResults)
  /\ origin = <<>>
  /\ lastChip = 0

Init == StartOn(Pages)

\* ------------------------------------------------------------------------
\* The DOMContentLoaded handler
\* ------------------------------------------------------------------------

\* isIndexLike with the negation of hasKoleksi lost.
IsIndexLikeAnyHighlight(p) == p.highlight.present /\ p.koleksi.present

\* isIndexLike decided by the highlight container alone.
IsIndexLikeByHighlight(p) == p.highlight.present

\* const isIndexLike = hasHighlight && !hasKoleksi
IsIndexLike(p) == p.highlight.present /\ ~p.koleksi.present

\* tagLinks.forEach: the distinct non-empty trimmed texts, in order of first
\* occurrence; acc is the array suggestions.
RECURSIVE Suggestions(_, _)
Suggestions(tags, acc) ==
  IF tags = <<>> THEN acc
  ELSE LET text == Trim(Head(tags))
       IN IF text # <<>> /\ ~(\E i \in 1..Len(acc) : acc[i] = text)
          THEN Suggestions(Tail(tags), Append(acc, text))
          ELSE Suggestions(Tail(tags), acc)

\* The array whole, with no slice.
SliceAll(a, n) == a

\* Array.prototype.slice(0, n)
Slice0(a, n) == SubSeq(a, 1, IF Len(a) < n THEN Len(a) ELSE n)

\* The text of the buttons the suggestion box gets.
SuggestionChips(p) == Slice0(Suggestions(p.tags, <<>>), ChipLimit)

\* document.querySelectorAll('.koleksi, .highlight-items')
ContainersOf(p) == {c \in {p.koleksi, p.highlight} : c.present}

\* The cached text without the collapse of white space.
SearchTextNoCollapse(textContent) == ToLowerCase(Trim(textContent))

\* it.textContent.replace(/\s+/g, ' ').trim().toLowerCase()
SearchText(textContent) == ToLowerCase(Trim(CollapseSpaces(textContent)))

\* it.dataset.search || ''
CachedText(d) == IF d = Unset THEN <<>> ELSE d

\* doSearch with the query trimmed but not lowercased.
DoSearchCaseSensitive(v, data, disp, nr) ==
  LET q == Trim(v)
  IN IF q = <<>>
     THEN [display |-> [i \in DOMAIN disp |-> ""], noResults |-> "none"]
     ELSE LET shown == [i \in DOMAIN disp |->
                          IF IndexOf(CachedText(data[i]), q) # -1
                          THEN "" ELSE "none"]
              visible == Cardinality({i \in DOMAIN disp : shown[i] = ""})
          IN [display |-> shown,
              noResults |-> IF visible # 0 THEN "none" ELSE ""]

\* doSearch with the query lowercased but not trimmed.
DoSearchNoTrim(v, data, disp, nr) ==
  LET q == ToLowerCase(v)
  IN IF q = <<>>
     THEN [display |-> [i \in DOMAIN disp |-> ""], noResults |-> "none"]
     ELSE LET shown == [i \in DOMAIN disp |->
                          IF IndexOf(CachedText(data[i]), q) # -1
                          THEN "" ELSE "none"]
              visible == Cardinality({i \in DOMAIN disp : shown[i] = ""})
          IN [display |-> shown,
              noResults |-> IF visible # 0 THEN "none" ELSE ""]

\* doSearch that hides the items that do not match and leaves the others
\* as they are.
DoSearchNeverReshows(v, data, disp, nr) ==
  LET q == ToLowerCase(Trim(v))
  IN IF q = <<>>
     THEN [display |-> [i \in DOMAIN disp |-> ""], noResults |-> "none"]
     ELSE LET shown == [i \in DOMAIN disp |->
                          IF IndexOf(CachedText(data[i]), q) # -1
                          THEN disp[i] ELSE "none"]
              visible == Cardinality({i \in DOMAIN disp : shown[i] = ""})
          IN [display |-> shown,
              noResults |-> IF visible # 0 THEN "none" ELSE ""]

\* doSearch whose empty-query branch leaves the message as it is.
DoSearchKeepsMessage(v, data, disp, nr) ==
  LET q == ToLowerCase(Trim(v))
  IN IF q = <<>>
     THEN [display |-> [i \in DOMAIN disp |-> ""], noResults |-> nr]
     ELSE LET shown == [i \in DOMAIN disp |->
                          IF IndexOf(CachedText(data[i]), q) # -1
                          THEN "" ELSE "none"]
              visible == Cardinality({i \in DOMAIN disp : shown[i] = ""})
          IN [display |-> shown,
              noResults |-> IF visible # 0 THEN "none" ELSE ""]

\* doSearch that counts the items visible before it restyles them.
DoSearchStaleCount(v, data, disp, nr) ==
  LET q == ToLowerCase(Trim(v))
  IN IF q = <<>>
     THEN [display |-> [i \in DOMAIN disp |-> ""], noResults |-> "none"]
     ELSE LET shown == [i \in DOMAIN disp |->
                          IF IndexOf(CachedText(data[i]), q) # -1
                          THEN "" ELSE "none"]
              visible == Cardinality({i \in DOMAIN disp : disp[i] = ""})
          IN [display |-> shown,
              noResults |-> IF visible # 0 THEN "none" ELSE ""]

\* function doSearch(): the style.display of every item and of the message
\* after a run, given the value of the field, the cached texts and the
\* styles before the run.
DoSearch(v, data, disp, nr) ==
  LET q == ToLowerCase(Trim(v))
  IN IF q = <<>>
     THEN [display |-> [i \in DOMAIN disp |-> ""], noResults |-> "none"]
     ELSE LET shown == [i \in DOMAIN disp |->
                          IF IndexOf(CachedText(data[i]), q) # -1
                          THEN "" ELSE "none"]
              visible == Cardinality({i \in DOMAIN disp : shown[i] = ""})
          IN [display |-> shown,
              noResults |-> IF visible # 0 THEN "none" ELSE ""]

\* params.get('q') is a non-empty string.
HasQParam(p) == p.search.present /\ DecodeParam(p.search.raw) # <<>>

\* The q parameter cut out of location.search by hand, still encoded.
QParamRaw(p) == p.search.raw

\* params.get('q')
QParam(p) == DecodeParam(p.search.raw)

\* The page is one the handler filters: it has a search field, is not an
\* index page, and its containers hold at least one item.
Filters(p) ==
  /\ p.input
  /\ ~IsIndexLike(p)
  /\ ContainersOf(p) # {}
  /\ Len(AllCards(p)) # 0

DOMContentLoaded ==
  /\ phase = "parsed"
  /\ phase' = "ready"
  /\ lastEvent' = "load"
  /\ UNCHANGED <<page, timers, href, burstVars, origin, lastChip>>
  /\ IF ~page.input
     THEN /\ NoRunHistory
          /\ UNCHANGED <<value, display, dataset, noResults, chips, listeners,
                         timeoutId>>
     ELSE IF IsIndexLike(page)
     THEN /\ listeners' = {"keydown:index"} \cup
                          (IF page.btn THEN {"click:search-btn"} ELSE {})
          /\ NoRunHistory
          /\ UNCHANGED <<value, display, dataset, noResults, chips, timeoutId>>
     ELSE /\ chips' = SuggestionChips(page)
          /\ IF ContainersOf(page) = {} \/ Len(AllCards(page)) = 0
             THEN /\ NoRunHistory
                  /\ UNCHANGED <<value, display, dataset, noResults, listeners,
                                 timeoutId>>
             ELSE LET data == [i \in DOMAIN dataset |->
                                 SearchText(AllCards(page)[i])]
                      nr == IF noResults = Absent THEN "none" ELSE noResults
                      res == DoSearch(QParam(page), data, display, nr)
                  IN /\ dataset' = data
                     /\ listeners' = {"input", "keydown"}
                     /\ timeoutId' = 0
                     /\ IF HasQParam(page)
                        THEN /\ value' = QParam(page)
                             /\ display' = res.display
                             /\ noResults' = res.noResults
                             /\ ran' = TRUE
                             /\ runsSinceEdit' = 1
                             /\ before' = Styles(display, nr)
                        ELSE /\ noResults' = nr
                             /\ NoRunHistory
                             /\ UNCHANGED <<value, display>>

\* ------------------------------------------------------------------------
\* Timers
\* ------------------------------------------------------------------------

\* clearTimeout(id): the timer of that id, if pending, is dropped.
ClearTimeout(ts, id) == {t \in ts : t.id # id}

\* The id setTimeout returns: one no pending timer has.
NewTimerId(ts) ==
  CHOOSE i \in 1..(MaxTimers + 1) :
    /\ \A t \in ts : t.id # i
    /\ \A j \in 1..(MaxTimers + 1) : (\A t \in ts : t.id # j) => i <= j

\* The 'input' listener without its clearTimeout.
InputListenerNoClear(ts, id) ==
  LET fresh == NewTimerId(ts)
  IN [timers |-> ts \cup {[id |-> fresh, remaining |-> DebounceMs]},
      timeoutId |-> fresh]

\* The 'input' listener with its two statements swapped: the timer it sets
\* is the one it clears.
InputListenerClearsNew(ts, id) ==
  LET fresh == NewTimerId(ts)
  IN [timers |-> ts, timeoutId |-> fresh]

\* The 'input' listener of the filter:
\*   clearTimeout(timeoutId); timeoutId = setTimeout(doSearch, 150)
InputListener(ts, id) ==
  LET cleared == ClearTimeout(ts, id)
      fresh == NewTimerId(cleared)
  IN [timers |-> cleared \cup {[id |-> fresh, remaining |-> DebounceMs]},
      timeoutId |-> fresh]

\* The 'keydown' listener without its clearTimeout.
EnterListenerTimersNoClear(ts, id) == ts

\* The timer part of the 'keydown' listener of the filter on Enter:
\*   clearTimeout(timeoutId)
EnterListenerTimers(ts, id) == ClearTimeout(ts, id)

\* ------------------------------------------------------------------------
\* Events after load
\* ------------------------------------------------------------------------

\* The redirect listener without the trim of the value.
RedirectHrefNoTrim(v, old) ==
  IF v # <<>> THEN [path |-> "koleksi1.html", q |-> EncodeURIComponent(v)]
  ELSE old

\* The target with the query appended as typed: 'koleksi1.html?q=' + q
RedirectTargetPlain(q) == [path |-> "koleksi1.html", q |-> q]

\* 'koleksi1.html?q=' + encodeURIComponent(q)
RedirectTarget(q) == [path |-> "koleksi1.html", q |-> EncodeURIComponent(q)]

\* The redirect listeners of an index page (keydown on Enter, click on the
\* search button): const q = searchInput.value.trim(); if (q) navigate.
RedirectHref(v, old) ==
  LET q == Trim(v)
  IN IF q # <<>> THEN RedirectTarget(q) ELSE old

\* History of a redirect listener: the query it navigated with.
RedirectOrigin(v, old) == IF Trim(v) # <<>> THEN Trim(v) ELSE old

\* typeof doSearch === 'function' in the click listener of a chip: doSearch
\* is a function declaration of the enclosing handler, so it is bound from
\* the moment the handler is entered, on every page.
DoSearchDeclared == TRUE

\* An 'input' event reaches the search field.
InputEvent ==
  /\ IF "input" \in listeners
     THEN /\ Cardinality(InputListener(timers, timeoutId).timers) <= MaxTimers
          /\ timers' = InputListener(timers, timeoutId).timers
          /\ timeoutId' = InputListener(timers, timeoutId).timeoutId
     ELSE UNCHANGED <<timers, timeoutId>>
  /\ lastEvent' = "input"
  /\ ran' = FALSE
  /\ runsSinceEdit' = IF value' = value THEN runsSinceEdit ELSE 0
  /\ sinceInput' = 0
  /\ burstInputs' = IF sinceInput >= DebounceMs THEN 1
                    ELSE IF burstInputs < MaxBurst THEN burstInputs + 1
                    ELSE MaxBurst
  /\ burstRuns' = IF sinceInput < DebounceMs THEN burstRuns ELSE 0
  /\ UNCHANGED before

\* The user types a character into the search field.
TypeChar ==
  /\ phase = "ready"
  /\ page.input
  /\ Len(value) < MaxLen
  /\ \E c \in Chars : value' = Append(value, c)
  /\ InputEvent
  /\ lastChip' = 0
  /\ UNCHANGED <<phase, page, display, dataset, noResults, chips, listeners,
                 href, origin>>

\* The user deletes the last character of the search field.
Backspace ==
  /\ phase = "ready"
  /\ page.input
  /\ value # <<>>
  /\ value' = SubSeq(value, 1, Len(value) - 1)
  /\ InputEvent
  /\ lastChip' = 0
  /\ UNCHANGED <<phase, page, display, dataset, noResults, chips, listeners,
                 href, origin>>

\* The user clicks a suggestion chip.
ClickChip ==
  /\ phase = "ready"
  /\ \E i \in 1..Len(chips) :
       /\ value' = chips[i]
       /\ lastChip' = i
       /\ IF DoSearchDeclared
          THEN InputEvent /\ UNCHANGED href
          ELSE /\ href' = RedirectTarget(chips[i])
               /\ lastEvent' = "click"
               /\ NoRunHistory
               /\ UNCHANGED <<timers, timeoutId, burstVars>>
  /\ UNCHANGED <<phase, page, display, dataset, noResults, chips, listeners,
                 origin>>

\* The user presses Enter in the search field.
KeydownEnter ==
  /\ phase = "ready"
  /\ page.input
  /\ lastEvent' = "enter"
  /\ lastChip' = 0
  /\ UNCHANGED <<phase, page, value, dataset, chips, listeners, timeoutId,
                 burstVars>>
  /\ IF "keydown:index" \in listeners
     THEN /\ href' = RedirectHref(value, href)
          /\ origin' = RedirectOrigin(value, origin)
          /\ NoRunHistory
          /\ UNCHANGED <<display, noResults, timers>>
     ELSE IF "keydown" \in listeners
     THEN LET res == DoSearch(value, dataset, display, noResults)
          IN /\ timers' = EnterListenerTimers(timers, timeoutId)
             /\ display' = res.display
             /\ noResults' = res.noResults
             /\ RunHistory(display, noResults)
             /\ UNCHANGED <<href, origin>>
     ELSE /\ NoRunHistory
          /\ UNCHANGED <<display, noResults, timers, href, origin>>

\* The user clicks the search button.
ClickSearchBtn ==
  /\ phase = "ready"
  /\ page.btn
  /\ lastEvent' = "click"
  /\ NoRunHistory
  /\ href' = IF "click:search-btn" \in listeners
             THEN RedirectHref(value, href) ELSE href
  /\ origin' = IF "click:search-btn" \in listeners
               THEN RedirectOrigin(value, origin) ELSE origin
  /\ lastChip' = 0
  /\ UNCHANGED <<phase, page, value, display, dataset, noResults, chips,
                 listeners, timers, timeoutId, burstVars>>

\* A timer whose delay has passed fires: the event loop calls doSearch.
TimerFire ==
  /\ phase = "ready"
  /\ \E t \in timers :
       /\ t.remaining = 0
       /\ timers' = timers \ {t}
  /\ LET res == DoSearch(value, dataset, display, noResults)
     IN /\ display' = res.display
        /\ noResults' = res.noResults
  /\ lastEvent' = "timer"
  /\ RunHistory(display, noResults)
  /\ burstRuns' = IF burstRuns < 2 THEN burstRuns + 1 ELSE burstRuns
  /\ lastChip' = 0
  /\ UNCHANGED <<phase, page, value, dataset, chips, listeners, timeoutId,
                 href, sinceInput, burstInputs, origin>>

Later(ms) == IF ms > TickMs THEN ms - TickMs ELSE 0

\* TickMs pass with no event handled.
Tick ==
  /\ phase = "ready"
  /\ sinceInput < AgeCap \/ \E t \in timers : t.remaining > 0
  /\ sinceInput' = IF sinceInput + TickMs < AgeCap
                   THEN sinceInput + TickMs ELSE AgeCap
  /\ timers' = {[id |-> t.id, remaining |-> Later(t.remaining)] : t \in timers}
  /\ UNCHANGED <<phase, page, value, display, dataset, noResults, chips,
                 listeners, timeoutId, href, lastEvent, ran, burstInputs,
                 burstRuns, runsSinceEdit, before, origin, lastChip>>

Next ==
  \/ DOMContentLoaded
  \/ TypeChar
  \/ Backspace
  \/ ClickChip
  \/ KeydownEnter
  \/ ClickSearchBtn
  \/ TimerFire
  \/ Tick

Spec == Init /\ [][Next]_vars

\* The pages with a collection container alone, which holds items.
CollectionInit ==
  /\ Init
  /\ Filters(page)
  /\ ~page.highlight.present

\* The events of a page without a search button.
CollectionNext ==
  \/ DOMContentLoaded
  \/ TypeChar
  \/ Backspace
  \/ ClickChip
  \/ KeydownEnter
  \/ TimerFire
  \/ Tick

\* A collection page whose event loop runs a timer that is due, and on
\* which time passes; the user may stop at any moment.
FairSpec ==
  /\ CollectionInit
  /\ [][CollectionNext]_vars
  /\ WF_vars(Tick)
  /\ WF_vars(TimerFire)

\* The collection pages the redirect of an index page may lead to: a search
\* field, a collection container with items, no highlight container.
Destinations ==
  {p \in Pages : Filters(p) /\ ~p.highlight.present
                  /\ p.tags = <<>> /\ p.search = NoParam}

\* The browser follows the assignment to window.location.href: it loads
\* koleksi1.html with the q parameter of the target, and the script starts
\* again on the new document.
Navigate ==
  /\ phase = "ready"
  /\ href # NoNav
  /\ phase' = "parsed"
  /\ \E p \in Destinations :
       page' = [p EXCEPT !.search = [present |-> TRUE, raw |-> href.q]]
  /\ value' = <<>>
  /\ display' = [i \in 1..Len(AllCards(page')) |-> ""]
  /\ dataset' = [i \in 1..Len(AllCards(page')) |-> Unset]
  /\ noResults' \in {Absent, "none", ""}
  /\ chips' = <<>>
  /\ listeners' = {}
  /\ timers' = {}
  /\ timeoutId' = 0
  /\ href' = NoNav
  /\ lastEvent' = "none"
  /\ ran' = FALSE
  /\ sinceInput' = AgeCap
  /\ burstInputs' = 0
  /\ burstRuns' = 0
  /\ runsSinceEdit' = 0
  /\ before' = [hidden |-> 0, message |-> noResults']
  /\ lastChip' = 0
  /\ UNCHANGED origin

\* The index pages, loaded without a q parameter.
RoundTripInit ==
  /\ Init
  /\ page.input
  /\ IsIndexLike(page)
  /\ page.search = NoParam

\* The events of an index page and of the collection page it leads to.
RoundTripNext ==
  \/ DOMContentLoaded
  \/ TypeChar
  \/ Backspace
  \/ KeydownEnter
  \/ ClickSearchBtn
  \/ TimerFire
  \/ Tick
  \/ Navigate

\* An index page, and the collection page its redirect loads.
RoundTripSpec == RoundTripInit /\ [][RoundTripNext]_vars

\* The documents without a .no-results element: the script creates the
\* message on the pages it filters.
CreatedInit == Init /\ noResults = Absent

\* The pages whose message, if any, is the script's.
CreatedSpec == CreatedInit /\ [][Next]_vars

\* textContent of the k-th tag link of the long tag lists: a run of k
\* letters, but the second link is blank and the fourth repeats the first
\* inside white space.
TagAt(k) ==
  IF k = 2 THEN <<" ">>
  ELSE IF k = 4 THEN <<" ", "B", " ">>
  ELSE [i \in 1..k |-> "B"]

\* The tag lists of the chip specification: the first n links of the long
\* list for every n, and a list of one blank link.
ChipTagLists ==
  {[k \in 1..n |-> TagAt(k)] : n \in 0..MaxTags} \cup {<< <<" ">> >>}

\* Non-index pages with a search field and tag links, and nothing to
\* filter.
ChipPages ==
  {[input |-> TRUE, koleksi |-> NoContainer, highlight |-> NoContainer,
    btn |-> FALSE, tags |-> t, search |-> NoParam] : t \in ChipTagLists}

ChipInit == StartOn(ChipPages)

\* The events of a page with a search field, without a search button and
\* without items.
ChipNext ==
  \/ DOMContentLoaded
  \/ TypeChar
  \/ Backspace
  \/ ClickChip
  \/ KeydownEnter
  \/ Tick

\* Pages with up to MaxTags tag links.
ChipSpec == ChipInit /\ [][ChipNext]_vars

\* ------------------------------------------------------------------------
\* Vocabulary of the properties
\* ------------------------------------------------------------------------

\* A collection page after load: the filter is installed.
CollectionPage ==
  /\ phase = "ready"
  /\ page.input
  /\ page.koleksi.present \/ ~page.highlight.present
  /\ Len(AllCards(page)) > 0

\* An index page: a search field, a highlight container, no collection
\* container.
IndexPage == page.input /\ page.highlight.present /\ ~page.koleksi.present

\* The query of a value of the search field: trimmed and lowercased.
QueryOf(v) == ToLowerCase(Trim(v))

\* The current query.
Query == QueryOf(value)

\* text contains q as a substring.
Contains(text, q) ==
  \E i \in 1..(Len(text) - Len(q) + 1) :
    \A k \in 1..Len(q) : text[i + k - 1] = q[k]

\* searchText of item i: its text with white space collapsed, trimmed and
\* lowercased.
ItemSearchText(i) == ToLowerCase(Trim(CollapseSpaces(AllCards(page)[i])))

Items == 1..Len(AllCards(page))

Visible(i) == display[i] = ""

MessageShown == noResults = ""

\* Item i passes query q.
Passes(i, q) == q = <<>> \/ Contains(ItemSearchText(i), q)

\* With the styles disp, every item is visible iff it passes the query of
\* the value v.
VisibilityMatches(v, disp) ==
  \A i \in Items : (disp[i] = "") <=> Passes(i, QueryOf(v))

\* Every item is visible iff it passes the current query.
VisibilityMatchesQuery == VisibilityMatches(value, display)

\* C1: on a collection page, right after a run of the filter (debounce
\* expiry, Enter, or the deep-link run at load), every item is visible iff
\* the query is empty or the item's searchText contains the query; the case
\* of the letters typed and of the item's text does not matter.
C1_FilterRule == (CollectionPage /\ ran) => VisibilityMatchesQuery

\* A debounce run with a query that the field holds in another spelling
\* (white space to trim) showed one item and hid another.
C1_Witness ==
  /\ CollectionPage /\ ran /\ lastEvent = "timer"
  /\ value # Query
  /\ \E i \in Items : Visible(i) /\ Contains(ItemSearchText(i), Query)
  /\ \E j \in Items : ~Visible(j)

\* C2 as claimed: in every state of a collection page every item is visible
\* iff it passes the current query.
C2_Original == CollectionPage => VisibilityMatchesQuery

\* C2, amended: in every state of a collection page in which no debounce
\* timer is pending, every item is visible iff it passes the current query.
C2_SettledVisibility ==
  (CollectionPage /\ timers = {}) => VisibilityMatchesQuery

\* The field was edited twice in one burst, the debounce run came, and an
\* item is hidden.
C2_Witness ==
  /\ CollectionPage /\ timers = {} /\ lastEvent = "timer"
  /\ burstInputs >= 2
  /\ \E j \in Items : ~Visible(j)

\* C3: right after a run of the filter with a non-empty query the message
\* is shown iff no item is visible; after a run with an empty query it is
\* hidden.
C3_Message ==
  (CollectionPage /\ ran) =>
    IF Query = <<>> THEN ~MessageShown
    ELSE MessageShown <=> (\A i \in Items : ~Visible(i))

\* A run with a non-empty query hid every item and showed the message.
C3_Witness ==
  /\ CollectionPage /\ ran /\ Query # <<>>
  /\ MessageShown
  /\ \A i \in Items : ~Visible(i)

\* C4: a run of the filter while the field is empty or holds only white
\* space leaves every item visible and the message hidden, whatever was
\* hidden or shown before the run.
C4_EmptyRestores ==
  (CollectionPage /\ ran /\ Trim(value) = <<>>) =>
    /\ \A i \in Items : Visible(i)
    /\ ~MessageShown

\* A run on a field of white space only found every item hidden and the
\* message shown.
C4_Witness ==
  /\ CollectionPage /\ ran
  /\ value # <<>> /\ Trim(value) = <<>>
  /\ before.hidden = Len(AllCards(page))
  /\ before.message = ""
  /\ \A i \in Items : Visible(i)
  /\ ~MessageShown

\* C5: a run of the filter that follows another run with no change of the
\* field in between leaves the style of every item and of the message as
\* the earlier run left them.
C5_Idempotent ==
  [][(CollectionPage /\ runsSinceEdit >= 1 /\ ran')
       => (display' = display /\ noResults' = noResults)]_vars

\* Two runs in a row on one non-empty query that hides an item.
C5_Witness ==
  /\ CollectionPage /\ ran /\ runsSinceEdit = 2
  /\ Query # <<>>
  /\ \E j \in Items : ~Visible(j)

\* The delay left to a timer set at the most recent input event.
DelayLeft == IF sinceInput < DebounceMs THEN DebounceMs - sinceInput ELSE 0

\* The timers of the debounce: at most one timer is pending; after an input
\* event exactly one is, due 150 ms after that event; the debounce runs the
\* filter only once 150 ms have passed since the most recent input event;
\* and a burst of input events less than 150 ms apart gets at most one
\* debounce run, none before its last event.
DebounceTimers ==
  CollectionPage =>
    /\ Cardinality(timers) <= 1
    /\ \A t \in timers : t.id = timeoutId /\ t.remaining = DelayLeft
    /\ lastEvent = "input" => Cardinality(timers) = 1
    /\ lastEvent = "timer" =>
         /\ sinceInput >= DebounceMs
         /\ timers = {}
         /\ burstRuns = 1
    /\ burstRuns <= 1
    /\ (burstRuns = 1 /\ burstInputs >= 1) => sinceInput >= DebounceMs

\* The burst is over: 150 ms have passed since its last input event and no
\* timer is pending.
BurstOver ==
  /\ burstInputs >= 1
  /\ sinceInput >= DebounceMs
  /\ timers = {}

\* C6 as claimed: the timers of the debounce are as above, and a burst that
\* is over has had exactly one debounce run.
C6_Original ==
  /\ DebounceTimers
  /\ (CollectionPage /\ BurstOver) => burstRuns = 1

\* C6, amended: on a collection page every input event cancels the pending
\* debounce timer and sets a new one (the timers of the debounce are as
\* above); a burst gets at most one debounce run; a burst left without a
\* pending timer and without a run has had its timer cancelled by Enter;
\* and after an input event, unless input events keep coming, either Enter
\* is pressed or the debounce runs the filter, once for the burst and 150 ms
\* or more after its last event.
C6_Debounce ==
  /\ []DebounceTimers
  /\ []((CollectionPage /\ burstInputs >= 1 /\ timers = {} /\ burstRuns = 0)
          => lastEvent = "enter")
  /\ \/ []<>(sinceInput = 0)
     \/ (CollectionPage /\ lastEvent = "input")
          ~> \/ lastEvent = "enter"
             \/ /\ lastEvent = "timer"
                /\ burstRuns = 1
                /\ sinceInput >= DebounceMs

\* The debounce ran the filter once after a burst of at least two input
\* events.
C6_Witness ==
  /\ CollectionPage
  /\ lastEvent = "timer"
  /\ burstInputs >= 2
  /\ burstRuns = 1
  /\ timers = {}

\* C7: on a collection page Enter runs the filter within its handler and
\* cancels the pending debounce: right after the handler the items and the
\* message match the field and no timer is pending, and the next run of the
\* filter, if any, is not a debounce run of an earlier input event.
C7_EnterImmediate ==
  [][CollectionPage =>
       /\ lastEvent' = "enter" => /\ ran'
                                  /\ timers' = {}
                                  /\ VisibilityMatches(value', display')
       /\ lastEvent = "enter" => lastEvent' # "timer"
    ]_vars

\* Enter was pressed less than 150 ms after an input event, while that
\* event's debounce was pending, and hid an item.
C7_Witness ==
  /\ CollectionPage
  /\ lastEvent = "enter"
  /\ sinceInput < DebounceMs
  /\ timers = {}
  /\ \E j \in Items : ~Visible(j)

\* The items and the message are as a run of the filter on the current
\* value of the field leaves them, and no run is pending.
Applied ==
  /\ timers = {}
  /\ VisibilityMatchesQuery
  /\ MessageShown <=> (Query # <<>> /\ \A i \in Items : ~Visible(i))

\* C8: on a collection page, after an input event, either input events
\* keep coming or the filter eventually runs and the items and the message
\* match the value of the field.
C8_EventuallyApplied ==
  \/ []<>(sinceInput = 0)
  \/ (CollectionPage /\ lastEvent = "input") ~> (CollectionPage /\ Applied)

\* The debounce applied an edit that changes what is visible.
C8_Witness ==
  /\ CollectionPage /\ Applied
  /\ lastEvent = "timer"
  /\ before.hidden = 0
  /\ \E j \in Items : ~Visible(j)

\* C9: on an index page no event filters: the style of every item and of
\* the message stays as it was, no searchText is cached, no message element
\* is created and no timer is set, whether or not a navigation is started.
C9_IndexNoFilter ==
  [][IndexPage =>
       /\ display' = display
       /\ dataset' = dataset /\ \A i \in Items : dataset[i] = Unset
       /\ noResults' = noResults
       /\ timers = {} /\ timers' = {}
       /\ timeoutId' = 0
       /\ ~ran'
    ]_vars

\* An index page after input events, with a navigation started.
C9_Witness ==
  /\ IndexPage /\ phase = "ready"
  /\ Len(AllCards(page)) > 0
  /\ href # NoNav
  /\ lastEvent = "input"
  /\ Query # href.q

\* The URL of the redirect for a value of the field.
TargetOf(v) == [path |-> "koleksi1.html", q |-> EncodeURIComponent(Trim(v))]

\* C10 as claimed: on an index page Enter and the search button navigate
\* to the collection page with the query of the field, whatever the field
\* holds.
C10_Original ==
  (IndexPage /\ lastEvent \in {"enter", "click"}) => href = TargetOf(value)

\* C10, amended: on an index page Enter and the search button navigate to
\* koleksi1.html with the trimmed, URL-encoded value of the field as q when
\* that trimmed value is not empty, both to the same URL; when it is empty
\* neither navigates.
C10_Redirect ==
  [][(IndexPage /\ lastEvent' \in {"enter", "click"}) =>
       IF Trim(value) # <<>> THEN href' = TargetOf(value) ELSE href' = href
    ]_vars

\* The search button navigated with a value that needed trimming and
\* encoding.
C10_Witness ==
  /\ IndexPage
  /\ lastEvent = "click"
  /\ value # Trim(value)
  /\ href = TargetOf(value)
  /\ href.q # Trim(value)

\* The value of the q parameter of the page URL.
ParamValue == DecodeParam(page.search.raw)

\* C11 as claimed: right after load, on every page with a search field that
\* is not an index page and whose URL carries a q parameter, the field holds
\* the parameter's value, the filter has run on it and no timer is pending.
C11_Original ==
  (/\ phase = "ready" /\ lastEvent = "load"
   /\ page.input /\ ~IndexPage
   /\ page.search.present)
  => (value = ParamValue /\ ran /\ Applied)

\* C11, amended: right after load, on a collection page (a search field,
\* not an index page, at least one item) whose URL carries a non-empty q
\* parameter, the field holds the parameter's value, the filter has run on
\* it (items and message match that query) and no timer is pending.
C11_DeepLink ==
  (/\ CollectionPage /\ lastEvent = "load"
   /\ page.search.present /\ ParamValue # <<>>)
  => (value = ParamValue /\ ran /\ Applied)

\* A deep link whose parameter needed decoding and trimming hid one item
\* and kept another.
C11_Witness ==
  /\ CollectionPage /\ lastEvent = "load" /\ ran
  /\ page.search.raw # value
  /\ value # Trim(value)
  /\ \E i \in Items : Visible(i)
  /\ \E j \in Items : ~Visible(j)

\* The digits of a percent escape.
HexDigits ==
  {"0", "1", "2", "3", "4", "5", "6", "7", "8", "9",
   "A", "B", "C", "D", "E", "F", "a", "b", "c", "d", "e", "f"}

\* The encoded parameter holds a percent sign that starts no escape.
Malformed(raw) ==
  \E i \in 1..Len(raw) :
    /\ raw[i] = "%"
    /\ ~(/\ i + 2 <= Len(raw)
          /\ raw[i + 1] \in HexDigits
          /\ raw[i + 2] \in HexDigits)

\* A page on which the handler returns before it installs anything: no
\* search field, or no container, or containers without items.
NoOpPage ==
  \/ ~page.input
  \/ ContainersOf(page) = {}
  \/ Len(AllCards(page)) = 0

\* On a page with no search field, no container or no item, after load: no
\* message element was created, no filter listener is registered, no timer
\* is pending, no filter has run, and every item is as the document had it.
AbsentNoOp ==
  (NoOpPage /\ phase = "ready") =>
    /\ noResults = before.message
    /\ listeners \cap {"input", "keydown"} = {}
    /\ timers = {} /\ timeoutId = 0
    /\ ~ran
    /\ \A i \in Items : Visible(i)

\* Right after load with an absent or malformed q parameter, the field is
\* empty and the items and the message are as the document had them.
ParamIgnored ==
  (/\ phase = "ready" /\ lastEvent = "load"
   /\ ~page.search.present \/ Malformed(page.search.raw))
  => /\ value = <<>>
     /\ \A i \in Items : Visible(i)
     /\ MessageShown <=> (before.message = "")

\* C12: absent elements short-circuit to a no-op (no message created, no
\* filter listener, no timer, no visibility change by later events), and
\* an absent or malformed q parameter leaves the field and all visibility
\* unchanged.
C12_NoOp == AbsentNoOp /\ ParamIgnored

\* The part of C12 about an absent parameter alone.
AbsentParamIgnored ==
  (phase = "ready" /\ lastEvent = "load" /\ ~page.search.present)
  => /\ value = <<>>
     /\ \A i \in Items : Visible(i)
     /\ MessageShown <=> (before.message = "")

\* The page is in index (redirect-only) mode: the redirect listener is
\* registered.
IndexMode == "keydown:index" \in listeners

\* The page is in filtering mode: the filter listeners are registered.
FilterMode == {"input", "keydown"} \subseteq listeners

\* The page has a collection container and a highlight container.
BothKinds == page.koleksi.present /\ page.highlight.present

\* Every card of the collection container and of the highlight container
\* is an item of the filter.
ItemsAreUnion ==
  /\ DOMAIN dataset = 1..(Len(page.koleksi.cards) + Len(page.highlight.cards))
  /\ \A i \in DOMAIN dataset : dataset[i] # Unset

\* C13 as claimed: after load the page is in index mode iff it has a
\* highlight container and no collection container, never in both modes,
\* and a page with both kinds of container is in filtering mode with the
\* items of all its containers.
C13_Original ==
  phase = "ready" =>
    /\ ~(IndexMode /\ FilterMode)
    /\ IndexMode <=> (page.highlight.present /\ ~page.koleksi.present)
    /\ BothKinds => (FilterMode /\ ItemsAreUnion)

\* C13, amended: on a page with a search field, after load, the page is in
\* index mode iff it has a highlight container and no collection container,
\* and never in both modes; a page with both kinds of container and at
\* least one item is in filtering mode and its items are the items of all
\* its containers; no event after load changes the mode.
C13_Modes ==
  /\ []((phase = "ready" /\ page.input) =>
          /\ ~(IndexMode /\ FilterMode)
          /\ IndexMode <=> (page.highlight.present /\ ~page.koleksi.present)
          /\ (BothKinds /\ Items # {}) => (FilterMode /\ ItemsAreUnion))
  /\ [][phase = "ready" => (listeners' = listeners /\ page' = page)]_vars

\* A page with both kinds of container, each with items, in filtering mode
\* after events: a run hid an item of the highlight container.
C13_Witness ==
  /\ phase = "ready" /\ BothKinds /\ FilterMode /\ ~IndexMode
  /\ page.koleksi.cards # <<>> /\ page.highlight.cards # <<>>
  /\ lastEvent = "timer"
  /\ \E i \in Items : i > Len(page.koleksi.cards) /\ ~Visible(i)

\* C14: on a collection page every item's searchText is cached at load,
\* before any filter run; after load no step changes a searchText, the set
\* of items or the page; Enter and a timer expiry leave the value of the
\* field as it was; and a filter run changes nothing but the visibility of
\* the items and of the message.
C14_Frame ==
  /\ [](CollectionPage => \A i \in Items : dataset[i] = ItemSearchText(i))
  /\ [][phase = "ready" =>
          /\ dataset' = dataset
          /\ DOMAIN display' = DOMAIN display
          /\ page' = page
          /\ lastEvent' \in {"enter", "timer"} => value' = value
          /\ ran' => /\ chips' = chips
                     /\ listeners' = listeners
                     /\ href' = href
                     /\ timeoutId' = timeoutId
       ]_vars

\* A debounce run on a non-empty field hid an item whose cached text is not
\* its textContent as written.
C14_Witness ==
  /\ CollectionPage /\ ran /\ lastEvent = "timer"
  /\ value # <<>>
  /\ \E i \in Items : ~Visible(i)
  /\ \E j \in Items : dataset[j] # AllCards(page)[j] /\ dataset[j] # Unset

\* C15: when an index page navigated with the non-empty trimmed value T of
\* its field, then right after the load of the collection page at that URL
\* the q parameter read is T, the field holds exactly T, and an item is
\* visible iff its searchText contains lowercase(T); no timer is pending.
C15_RoundTrip ==
  (CollectionPage /\ lastEvent = "load" /\ origin # <<>>) =>
    /\ ParamValue = origin
    /\ value = origin
    /\ ran
    /\ \A i \in Items :
         Visible(i) <=> Contains(ItemSearchText(i), ToLowerCase(origin))
    /\ timers = {}

\* A collection page loaded from a redirect whose query needed encoding;
\* the run at load kept one item and hid another.
C15_Witness ==
  /\ CollectionPage /\ lastEvent = "load" /\ origin # <<>>
  /\ value = origin
  /\ page.search.raw # origin
  /\ \E i \in Items : Visible(i)
  /\ \E j \in Items : ~Visible(j)

\* The last event was a click on a suggestion chip.
ChipClicked == phase = "ready" /\ lastChip # 0

\* The debounce timer of the input listener is pending.
RunScheduled == \E t \in timers : t.id = timeoutId

\* On a collection page a chip click sets the field to the chip's text and
\* schedules a filter run.
ChipClickSchedules ==
  (ChipClicked /\ CollectionPage) =>
    (value = chips[lastChip] /\ RunScheduled)

\* C16: after a click on a suggestion chip of a non-index page the field
\* holds the chip's text, and either a filter run is scheduled or the
\* browser navigates to koleksi1.html with the chip's text as q.
C16_ChipEffect ==
  ChipClicked =>
    /\ value = chips[lastChip]
    /\ RunScheduled \/ href = RedirectTarget(chips[lastChip])

\* A document the script filters, loaded or not: a search field, not an
\* index page, at least one item.
CollectionDocument ==
  /\ page.input
  /\ page.koleksi.present \/ ~page.highlight.present
  /\ Len(AllCards(page)) > 0

\* C17: on a collection page whose message is created by the script, in
\* every state (before load, after load, with a debounce timer pending or
\* not) the message is shown iff every item is hidden.
C17_MessageIffAllHidden ==
  CollectionDocument => (MessageShown <=> \A i \in Items : ~Visible(i))

\* The message is shown and every item hidden while a debounce timer for a
\* later edit is pending.
C17_Witness ==
  /\ CollectionDocument /\ phase = "ready"
  /\ timers # {}
  /\ lastEvent = "input"
  /\ MessageShown
  /\ \A i \in Items : ~Visible(i)
  /\ \E i \in Items : Passes(i, Query)

\* The trimmed text of the k-th tag link of the page.
TagText(k) == Trim(page.tags[k])

\* The tag links whose trimmed text is non-empty and appears on no earlier
\* link.
FirstOccurrences ==
  {k \in DOMAIN page.tags :
     /\ TagText(k) # <<>>
     /\ \A j \in 1..(k - 1) : TagText(j) # TagText(k)}

\* C18: after load of a non-index page with a search field, the chips are
\* the first 10 distinct non-empty trimmed texts of the tag links, in order
\* of first occurrence: no two chips carry the same text, there are at most
\* 10 chips, and there is none when no tag link has a non-empty text.
C18_Chips ==
  (phase = "ready" /\ page.input /\ ~IndexPage) =>
    LET rank(k) == Cardinality({j \in FirstOccurrences : j <= k})
        count == Cardinality(FirstOccurrences)
    IN /\ Len(chips) = IF count < ChipLimit THEN count ELSE ChipLimit
       /\ \A k \in FirstOccurrences :
            rank(k) <= ChipLimit => chips[rank(k)] = TagText(k)
       /\ \A i, j \in 1..Len(chips) : i # j => chips[i] # chips[j]
       /\ Len(chips) <= ChipLimit
       /\ FirstOccurrences = {} => chips = <<>>

\* A page with more than 10 distinct tag texts, a blank link and a repeated
\* one shows 10 chips, and the last chip was clicked.
C18_Witness ==
  /\ phase = "ready" /\ page.input /\ ~IndexPage
  /\ Cardinality(FirstOccurrences) > ChipLimit
  /\ Cardinality(FirstOccurrences) + 1 < Len(page.tags)
  /\ Len(chips) = ChipLimit
  /\ lastChip = ChipLimit
  /\ value = chips[ChipLimit]

====
